---------------------------- MODULE Spec2Model ----------------------------
(***************************************************************************)
(* A model of src/src/App.jsx: the PNG tEXt reader and writer              *)
(* (extractPngMetadata, injectPngMetadata, crc32), the JPEG helpers built  *)
(* on window.piexif, and the two handlers of ExifPreserverApp that drive   *)
(* them (handleExtract, handleInject) with the component's state.          *)
(*                                                                         *)
(* Bytes are naturals 0..255 and a buffer is a sequence of bytes; a JS     *)
(* string is a sequence of UTF-16 code units.  JS offsets are 0-based and  *)
(* are kept 0-based in the operators' parameters.  A JS int32 is a TLA+    *)
(* integer in -2^31 .. 2^31-1, as the bitwise operators of JS produce it.  *)
(***************************************************************************)
EXTENDS Integers, Sequences, FiniteSets, TLC

(***************************************************************************)
(* Bounds of the model.                                                    *)
(***************************************************************************)
\* Longest metadata text (in UTF-16 code units) drawn for the codec runs.
MaxText == 2
\* Most handler invocations that may be awaiting their file bytes at once.
MaxPending == 2

(***************************************************************************)
(* JS 32-bit integer operators, as used by crc32.                          *)
(***************************************************************************)
MinInt32 == -1073741824 - 1073741824

\* The low 31 bits of an int32, as a natural.
Low31(v) == IF v < 0 THEN v - MinInt32 ELSE v

\* a ^ b for naturals, bit by bit.
RECURSIVE XorBits(_, _)
XorBits(a, b) ==
    IF a = 0 THEN b
    ELSE IF b = 0 THEN a
    ELSE (((a % 2) + (b % 2)) % 2) + 2 * XorBits(a \div 2, b \div 2)

\* The same for two 4-bit operands, tabulated: XorNibble[a + 1][b + 1].
RECURSIVE XorRow(_, _)
XorRow(a, b) == IF b < 0 THEN << >> ELSE Append(XorRow(a, b - 1), XorBits(a, b))

RECURSIVE XorRows(_)
XorRows(a) == IF a < 0 THEN << >> ELSE Append(XorRows(a - 1), XorRow(a, 15))

XorNibble == XorRows(15)

\* a ^ b for naturals, eight bits at a time.
RECURSIVE XorNat(_, _)
XorNat(a, b) ==
    IF a = 0 THEN b
    ELSE IF b = 0 THEN a
    ELSE XorNibble[(a % 16) + 1][(b % 16) + 1]
         + 16 * XorNibble[((a \div 16) % 16) + 1][((b \div 16) % 16) + 1]
         + 256 * XorNat(a \div 256, b \div 256)

\* a ^ b on int32 operands; the result is an int32.
BitXor(a, b) ==
    LET x == XorNat(Low31(a), Low31(b))
    IN  IF (a < 0) # (b < 0) THEN x + MinInt32 ELSE x

\* c >>> n for 1 <= n <= 31: the operand is read as a uint32.
UShr(c, n) ==
    IF c >= 0 THEN c \div (2 ^ n)
    ELSE (Low31(c) \div (2 ^ n)) + 2 ^ (31 - n)

\* 0xedb88320 as the int32 the ^ operator reads it as.
Poly == -306674912
\* 0xffffffff as the int32 the ^ and >>> operators read it as.
AllOnes == -1

RECURSIVE CrcShift(_, _)
CrcShift(c, k) ==
    IF k = 0 THEN c
    ELSE CrcShift(IF c % 2 = 1 THEN BitXor(Poly, UShr(c, 1)) ELSE UShr(c, 1),
                  k - 1)

\* The entries lo..hi of the table the outer for loop fills.
RECURSIVE CrcEntries(_, _)
CrcEntries(lo, hi) ==
    IF lo = hi THEN << CrcShift(lo, 8) >>
    ELSE CrcEntries(lo, (lo + hi) \div 2) \o CrcEntries(((lo + hi) \div 2) + 1, hi)

\* crcTable[n] of the source is crcTable[n + 1] here.
crcTable == CrcEntries(0, 255)

\* As CrcStep, with the sign-propagating shift c >> 8.
CrcStepSignedShift(c, byte) ==
    BitXor(crcTable[(BitXor(c, byte) % 256) + 1], c \div 256)

\* c = crcTable[(c ^ buf[n]) & 0xff] ^ (c >>> 8)
CrcStep(c, byte) == BitXor(crcTable[(BitXor(c, byte) % 256) + 1], UShr(c, 8))

\* The for loop of crc32 from index n on; c is an int32 at every iteration.
RECURSIVE CrcLoop(_, _, _)
CrcLoop(buf, n, c) ==
    IF n > Len(buf) \/ c \notin Int THEN c
    ELSE CrcLoop(buf, n + 1, CrcStep(c, buf[n]))

\* crc32(buf): the JS result, an int32 (negative when bit 31 is set).
crc32(buf) == BitXor(CrcLoop(buf, 1, AllOnes), AllOnes)

(***************************************************************************)
(* DataView and typed-array primitives.                                    *)
(***************************************************************************)
\* buffer.slice(from, from + n) for a range inside the buffer.
Slice(buf, from, n) == SubSeq(buf, from + 1, from + n)

\* A uint32 read as the pair of its 16-bit halves <<high, low>> (big endian).
GetUint32(buf, off) ==
    << buf[off + 1] * 256 + buf[off + 2], buf[off + 3] * 256 + buf[off + 4] >>

\* The number a uint32 pair stands for (the model's inputs keep it below 2^31).
U32Value(p) == p[1] * 65536 + p[2]

\* view.setUint32(_, v): the four big-endian bytes of v modulo 2^32.
Uint32Bytes(v) ==
    << (v \div 16777216) % 256, (v \div 65536) % 256, (v \div 256) % 256, v % 256 >>

(***************************************************************************)
(* TextEncoder / TextDecoder('utf-8').                                     *)
(***************************************************************************)
IsHighSurrogate(u) == u >= 55296 /\ u <= 56319
IsLowSurrogate(u) == u >= 56320 /\ u <= 57343
Replacement == 65533
BOM == 65279

EncodeCodePoint(cp) ==
    IF cp < 128 THEN << cp >>
    ELSE IF cp < 2048 THEN << 192 + (cp \div 64), 128 + (cp % 64) >>
    ELSE IF cp < 65536
         THEN << 224 + (cp \div 4096), 128 + ((cp \div 64) % 64), 128 + (cp % 64) >>
    ELSE << 240 + (cp \div 262144), 128 + ((cp \div 4096) % 64),
            128 + ((cp \div 64) % 64), 128 + (cp % 64) >>

RECURSIVE EncodeFrom(_, _)
EncodeFrom(s, i) ==
    IF i > Len(s) THEN << >>
    ELSE IF IsHighSurrogate(s[i]) /\ i < Len(s) /\ IsLowSurrogate(s[i + 1])
         THEN EncodeCodePoint(65536 + (s[i] - 55296) * 1024 + (s[i + 1] - 56320))
              \o EncodeFrom(s, i + 2)
    ELSE IF IsHighSurrogate(s[i]) \/ IsLowSurrogate(s[i])
         THEN EncodeCodePoint(Replacement) \o EncodeFrom(s, i + 1)
    ELSE EncodeCodePoint(s[i]) \o EncodeFrom(s, i + 1)

\* new TextEncoder().encode(s): unpaired surrogates become U+FFFD.
Utf8Encode(s) == EncodeFrom(s, 1)

RECURSIVE DecodeFrom(_, _), DecodeCont(_, _, _, _, _, _)
\* The code points of b from index i on (the decoder's error mode is replacement).
DecodeFrom(b, i) ==
    IF i > Len(b) THEN << >>
    ELSE LET x == b[i]
         IN  IF x < 128 THEN << x >> \o DecodeFrom(b, i + 1)
             ELSE IF x >= 194 /\ x <= 223
                  THEN DecodeCont(b, i + 1, 1, x - 192, 128, 191)
             ELSE IF x >= 224 /\ x <= 239
                  THEN DecodeCont(b, i + 1, 2, x - 224,
                                  IF x = 224 THEN 160 ELSE 128,
                                  IF x = 237 THEN 159 ELSE 191)
             ELSE IF x >= 240 /\ x <= 244
                  THEN DecodeCont(b, i + 1, 3, x - 240,
                                  IF x = 240 THEN 144 ELSE 128,
                                  IF x = 244 THEN 143 ELSE 191)
             ELSE << Replacement >> \o DecodeFrom(b, i + 1)

\* `need` continuation bytes are still due, the next one within lo..hi.
DecodeCont(b, j, need, cp, lo, hi) ==
    IF j > Len(b) THEN << Replacement >>
    ELSE IF b[j] < lo \/ b[j] > hi THEN << Replacement >> \o DecodeFrom(b, j)
    ELSE IF need = 1 THEN << cp * 64 + (b[j] - 128) >> \o DecodeFrom(b, j + 1)
    ELSE DecodeCont(b, j + 1, need - 1, cp * 64 + (b[j] - 128), 128, 191)

RECURSIVE ToCodeUnits(_, _)
ToCodeUnits(cps, i) ==
    IF i > Len(cps) THEN << >>
    ELSE IF cps[i] >= 65536
         THEN << 55296 + ((cps[i] - 65536) \div 1024),
                 56320 + ((cps[i] - 65536) % 1024) >> \o ToCodeUnits(cps, i + 1)
    ELSE << cps[i] >> \o ToCodeUnits(cps, i + 1)

\* new TextDecoder('utf-8').decode(b): ignoreBOM is false, so one leading
\* U+FEFF is dropped.
Utf8Decode(b) ==
    LET cps == DecodeFrom(b, 1)
    IN  ToCodeUnits(IF Len(cps) > 0 /\ cps[1] = BOM THEN Tail(cps) ELSE cps, 1)

\* The string literals of the source, as code units.
StrParameters == << 112, 97, 114, 97, 109, 101, 116, 101, 114, 115 >>
StrTEXt == << 116, 69, 88, 116 >>

(***************************************************************************)
(* Values the functions return.  null is a record of the same shape as a   *)
(* metadata object, so that the two compare.                               *)
(***************************************************************************)
\* null where a { type, data } object is expected.
NoMeta == [type |-> "null", data |-> << >>]
PngMeta(text) == [type |-> "png", data |-> text]
JpgMeta(exifObj) == [type |-> "jpg", data |-> exifObj]

\* How a call ends: it returns a value or throws an Error with a message.
Return(v) == [kind |-> "return", message |-> "", value |-> v]
Throw(msg) == [kind |-> "throw", message |-> msg, value |-> NoMeta]

\* The message of the Error extractPngMetadata throws on a bad signature.
MsgInvalidPng == "invalid PNG"
\* A read outside the buffer (DataView.getUint32, new Uint8Array(buffer, o, n),
\* TypedArray.set) throws a RangeError.
MsgRange == "RangeError"

(***************************************************************************)
(* extractPngMetadata                                                      *)
(***************************************************************************)
\* The for loop over chunkData: the index of the first 0 byte, or -1.
RECURSIVE NullIndexFrom(_, _)
NullIndexFrom(chunkData, i) ==
    IF i >= Len(chunkData) THEN -1
    ELSE IF chunkData[i + 1] = 0 THEN i
    ELSE NullIndexFrom(chunkData, i + 1)

\* As NullIndex, with the end of the data taken where no 0 byte is found.
NullIndexOrLength(chunkData) ==
    IF NullIndexFrom(chunkData, 0) = -1 THEN Len(chunkData)
    ELSE NullIndexFrom(chunkData, 0)

NullIndex(chunkData) == NullIndexFrom(chunkData, 0)

\* As KeywordMatches, taking any of the three keywords of the convention.
KeywordMatchesAny(keyword) ==
    keyword \in { StrParameters, << 112, 114, 111, 109, 112, 116 >>,
                  << 119, 111, 114, 107, 102, 108, 111, 119 >> }

\* keyword === 'parameters'
KeywordMatches(keyword) == keyword = StrParameters

\* return parameters ? { type: 'png', data: parameters } : null
\* (the empty string is falsy, like null).
ExtractResult(parameters) ==
    IF parameters # << >> THEN PngMeta(parameters) ELSE NoMeta

\* As NextOffset, counting the data only.
NextOffsetDataOnly(offset, length) == offset + length

\* offset += 12 + length
NextOffset(offset, length) == offset + 12 + length

\* The while loop from `offset` on, with parameters still null.
RECURSIVE ChunkWalk(_, _)
ChunkWalk(buf, offset) ==
    IF ~(offset < Len(buf)) THEN Return(ExtractResult(<< >>))
    ELSE IF offset + 4 > Len(buf) THEN Throw(MsgRange)
    ELSE IF offset + 8 > Len(buf) THEN Throw(MsgRange)
    ELSE
      LET length == U32Value(GetUint32(buf, offset))
          type == Utf8Decode(Slice(buf, offset + 4, 4))
      IN  IF type = StrTEXt
          THEN IF offset + 8 + length > Len(buf) THEN Throw(MsgRange)
               ELSE
                 LET chunkData == Slice(buf, offset + 8, length)
                     nullIndex == NullIndex(chunkData)
                 IN  IF nullIndex > -1
                        /\ KeywordMatches(Utf8Decode(Slice(chunkData, 0, nullIndex)))
                     THEN \* parameters = text; break
                          Return(ExtractResult(
                              Utf8Decode(Slice(chunkData, nullIndex + 1,
                                               length - nullIndex - 1))))
                     ELSE ChunkWalk(buf, NextOffset(offset, length))
          ELSE ChunkWalk(buf, NextOffset(offset, length))

\* view.getUint32(0) !== 0x89504e47 || view.getUint32(4) !== 0x0d0a1a0a
SignatureOk(buf) ==
    /\ GetUint32(buf, 0) = << 35152, 20039 >>
    /\ GetUint32(buf, 4) = << 3338, 6666 >>

\* As extractPngMetadata, with the signature test left out.
extractPngMetadataUnchecked(buf) == ChunkWalk(buf, 8)

extractPngMetadata(buf) ==
    IF Len(buf) < 4 THEN Throw(MsgRange)
    ELSE IF GetUint32(buf, 0) # << 35152, 20039 >> THEN Throw(MsgInvalidPng)
    ELSE IF Len(buf) < 8 THEN Throw(MsgRange)
    ELSE IF ~SignatureOk(buf) THEN Throw(MsgInvalidPng)
    ELSE ChunkWalk(buf, 8)

(***************************************************************************)
(* injectPngMetadata                                                       *)
(***************************************************************************)
\* As ChunkLength, with the separator byte forgotten.
ChunkLengthNoSeparator(keyData, textData) == Len(keyData) + Len(textData)

\* chunkLength = keyData.length + 1 + textData.length
ChunkLength(keyData, textData) == Len(keyData) + 1 + Len(textData)

\* writeString(view, 4, "tEXt"): setUint8 keeps the code unit modulo 256.
RECURSIVE WriteString(_, _)
WriteString(string, i) ==
    IF i > Len(string) THEN << >>
    ELSE << string[i] % 256 >> \o WriteString(string, i + 1)

\* As CrcInput, with the length field taken in as well.
CrcInputWithLength(chunkBuffer, chunkLength) ==
    Slice(chunkBuffer, 0, 8 + chunkLength)

\* The bytes the CRC is computed over: chunkBuffer.slice(4, 8 + chunkLength).
CrcInput(chunkBuffer, chunkLength) == Slice(chunkBuffer, 4, 4 + chunkLength)

\* view.setUint32(8 + chunkLength, crc32(crcInput))
WithCrc(head, chunkLength) ==
    head \o Uint32Bytes(crc32(CrcInput(head, chunkLength)))

\* chunkBuffer once its four parts are written.
ChunkBuffer(keyword, metadataString) ==
    LET keyData == Utf8Encode(keyword)
        textData == Utf8Encode(metadataString)
        chunkLength == ChunkLength(keyData, textData)
    IN  WithCrc(Uint32Bytes(chunkLength) \o WriteString(StrTEXt, 1)
                  \o keyData \o << 0 >> \o textData,
                chunkLength)

\* As InsertOffset, with the chunk put behind the last byte of the original.
InsertOffsetAtEnd(originalBuffer) == Len(originalBuffer)

\* Where the new chunk is put: finalBuffer.set(chunkBuffer, 8).
InsertOffset(originalBuffer) == 8

\* As FinalBuffer, with the rest of the file copied from one byte too far.
FinalBufferSkipsByte(originalBuffer, chunkBuffer) ==
    Slice(originalBuffer, 0, 8) \o chunkBuffer
      \o Slice(originalBuffer, 9, Len(originalBuffer) - 9) \o << 0 >>

\* finalBuffer: the first bytes of the original, the chunk, the rest.
FinalBuffer(originalBuffer, chunkBuffer) ==
    LET at == InsertOffset(originalBuffer)
    IN  Slice(originalBuffer, 0, at) \o chunkBuffer
          \o Slice(originalBuffer, at, Len(originalBuffer) - at)

\* The three finalBuffer.set calls: a Blob of the bytes, or the RangeError of
\* finalBuffer.set(chunkBuffer, 8) when the chunk does not fit behind offset 8
\* (the original is shorter than 8 bytes).
Assemble(originalBuffer, chunkBuffer) ==
    IF 8 + Len(chunkBuffer) > Len(originalBuffer) + Len(chunkBuffer)
    THEN [kind |-> "throw", message |-> MsgRange, blob |-> << >>]
    ELSE [kind |-> "return", message |-> "",
          blob |-> FinalBuffer(originalBuffer, chunkBuffer)]

injectPngMetadata(originalBuffer, metadataString) ==
    Assemble(originalBuffer, ChunkBuffer(StrParameters, metadataString))

(***************************************************************************)
(* Inputs.  Every length field of the buffers below is under 2^24, so that *)
(* offset + 12 + length stays an integer TLC can hold.                     *)
(***************************************************************************)
Signature == << 137, 80, 78, 71, 13, 10, 26, 10 >>

\* A well-formed chunk: length, type, data, CRC-32 of type ++ data.
MkChunk(type, data) ==
    Uint32Bytes(Len(data)) \o type \o data \o Uint32Bytes(crc32(type \o data))

TypeIHDR == << 73, 72, 68, 82 >>
TypeIDAT == << 73, 68, 65, 84 >>
TypeIEND == << 73, 69, 78, 68 >>

\* A 1x1 8-bit greyscale header, one byte of image data, the end chunk.
ChunkIHDR == MkChunk(TypeIHDR, << 0, 0, 0, 1, 0, 0, 0, 1, 8, 0, 0, 0, 0 >>)
ChunkIDAT == MkChunk(TypeIDAT, << 120 >>)
ChunkIEND == MkChunk(TypeIEND, << >>)

\* A PNG whose ancillary chunks, between IHDR and IDAT, are `middle`.
MkPng(middle) == Signature \o ChunkIHDR \o middle \o ChunkIDAT \o ChunkIEND

\* A tEXt chunk holding keyword bytes, the separator and text bytes.
MkText(keywordBytes, textBytes) ==
    MkChunk(StrTEXt, keywordBytes \o << 0 >> \o textBytes)

KeyParameters == StrParameters
KeyPrompt == << 112, 114, 111, 109, 112, 116 >>
KeyWorkflow == << 119, 111, 114, 107, 102, 108, 111, 119 >>
KeyComment == << 67, 111, 109, 109, 101, 110, 116 >>
\* EF BB BF before the keyword: the decoder drops it.
KeyBomParameters == << 239, 187, 191 >> \o StrParameters

KeywordBytes == { KeyParameters, KeyPrompt, KeyWorkflow, KeyComment,
                  KeyBomParameters }
RecognizedKeywords == { KeyParameters, KeyPrompt, KeyWorkflow }

\* Text bytes as found in source files: empty, ASCII, a lone BOM, two BOMs
\* and a letter, a two-byte character, an embedded NUL, an invalid byte.
TextBytes == { << >>, << 65 >>, << 239, 187, 191 >>,
               << 239, 187, 191, 239, 187, 191, 65 >>, << 195, 169 >>,
               << 65, 0, 66 >>, << 255 >> }

\* PNGs with no tEXt chunk at all.
PlainPngs == { MkPng(<< >>),
               Signature \o ChunkIHDR \o ChunkIEND,
               Signature \o MkChunk(TypeIHDR, << >>) \o ChunkIDAT \o ChunkIEND }

\* PNGs with one tEXt chunk.
OneTextPngs == { MkPng(MkText(k, t)) : k \in KeywordBytes, t \in TextBytes }

\* PNGs with a tEXt chunk that has no separator, alone or before a good one.
NoNulPngs == { MkPng(MkChunk(StrTEXt, StrParameters)),
               MkPng(MkChunk(StrTEXt, << >>)),
               MkPng(MkChunk(StrTEXt, StrParameters) \o MkText(KeyParameters, << 66 >>)),
               MkPng(MkChunk(StrTEXt, << 65 >>) \o MkChunk(StrTEXt, StrParameters \o << 66 >>)
                        \o MkText(KeyParameters, << 67 >>)),
               MkPng(MkChunk(StrTEXt, StrParameters) \o MkText(KeyPrompt, << 80 >>)) }

\* PNGs with two tEXt chunks.
TwoTextPngs == { MkPng(MkText(KeyWorkflow, << 87 >>) \o MkText(KeyPrompt, << 80 >>)),
                 MkPng(MkText(KeyPrompt, << 80 >>) \o MkText(KeyParameters, << 65 >>)),
                 MkPng(MkText(KeyParameters, << 65 >>) \o MkText(KeyParameters, << 66 >>)),
                 MkPng(MkText(KeyParameters, << >>) \o MkText(KeyParameters, << 66 >>)) }

ValidPngs == PlainPngs \cup OneTextPngs \cup NoNulPngs \cup TwoTextPngs

\* Buffers that are not well-formed PNGs: empty, shorter than the signature,
\* a broken signature (a JPEG start, one altered byte), a chunk cut short, a
\* length field that points past the end.
BrokenSignature == { << 255, 216, 255, 224, 0, 16, 74, 70, 73, 70 >>,
                     << 137, 80, 78, 71, 13, 10, 26, 11 >> \o ChunkIHDR
                        \o MkText(KeyParameters, << 65 >>) \o ChunkIEND,
                     << 137, 80, 78, 71, 0, 0, 0, 0 >> }
ShortBuffers == { << >>, << 137, 80, 78 >>, << 137, 80, 78, 71, 13, 10 >>,
                  << 255, 216, 255, 224, 0 >>, << 1, 2 >> }
Truncated == { Signature \o << 0, 0 >>,
               Signature \o << 0, 0, 0, 13, 73, 72 >>,
               Signature \o ChunkIHDR \o << 0, 0, 0, 20 >> \o StrTEXt \o StrParameters,
               Signature \o ChunkIHDR \o << 0, 0, 0, 12 >> \o StrTEXt
                  \o StrParameters \o << 0, 65 >>,
               Signature \o << 0, 0, 255, 255 >> \o TypeIHDR \o << 1, 2, 3 >>,
               Signature }

PngInputs == ValidPngs \cup BrokenSignature \cup ShortBuffers \cup Truncated

\* Code units a metadata string is drawn from: a letter, NUL, a two-byte and
\* a three-byte character, U+FEFF, a high and a low surrogate.
CodeUnits == { 65, 0, 233, 8364, 65279, 55357, 56832 }

RECURSIVE SeqsUpTo(_, _)
SeqsUpTo(S, n) ==
    IF n = 0 THEN { << >> }
    ELSE LET shorter == SeqsUpTo(S, n - 1)
         IN  shorter \cup { Append(s, x) : s \in shorter, x \in S }

Texts == SeqsUpTo(CodeUnits, MaxText)


(***************************************************************************)
(* The files a user can hand to the two drop zones.  A File object is      *)
(* referred to by its name.  type is file.type, which the browser derives  *)
(* from the file's extension, not from its bytes.  readable tells whether  *)
(* reading the bytes succeeds.  For a JPEG, exif is what piexif.load makes *)
(* of it (the empty sequence: piexif.load throws) and insertable tells     *)
(* whether piexif.insert accepts it.                                       *)
(***************************************************************************)
MimePng == "image/png"
MimeJpeg == "image/jpeg"
MimeWebp == "image/webp"

JpegBytes == << 255, 216, 255, 217 >>
WebpBytes == << 82, 73, 70, 70 >>

File(type, readable, bytes, exif, insertable) ==
    [type |-> type, readable |-> readable, bytes |-> bytes, exif |-> exif,
     insertable |-> insertable]

Files ==
    ("a.png" :> File(MimePng, TRUE, MkPng(MkText(KeyParameters, << 65 >>)),
                     << >>, FALSE))
    @@ ("b.png" :> File(MimePng, TRUE, MkPng(MkText(KeyParameters, << 66 >>)),
                        << >>, FALSE))
    @@ ("plain.png" :> File(MimePng, TRUE, MkPng(<< >>), << >>, FALSE))
    @@ ("badsig.png" :> File(MimePng, TRUE,
                             << 137, 80, 78, 71, 13, 10, 26, 11 >> \o ChunkIHDR
                               \o MkText(KeyParameters, << 65 >>) \o ChunkIEND,
                             << >>, FALSE))
    @@ ("short.png" :> File(MimePng, TRUE, << 137, 80, 78 >>, << >>, FALSE))
    @@ ("cut.png" :> File(MimePng, TRUE,
                          Signature \o ChunkIHDR \o << 0, 0, 0, 20 >> \o StrTEXt
                            \o StrParameters, << >>, FALSE))
    @@ ("gone.png" :> File(MimePng, FALSE, << >>, << >>, FALSE))
    @@ ("photo.jpg" :> File(MimeJpeg, TRUE, JpegBytes, << 1 >>, TRUE))
    @@ ("broken.jpg" :> File(MimeJpeg, TRUE, << 0, 0 >>, << >>, FALSE))
    @@ ("gone.jpg" :> File(MimeJpeg, FALSE, << >>, << >>, FALSE))
    @@ ("pic.webp" :> File(MimeWebp, TRUE, WebpBytes, << >>, FALSE))

FileNames == DOMAIN Files

\* await file.arrayBuffer() rejects for a file that cannot be read.
MsgNotReadable == "NotReadableError"
\* The Error handleExtract throws while window.piexif is not there yet.
MsgPiexifLoading == "piexif loading"
\* What piexif.dump / piexif.insert throw.
MsgPiexif == "piexif error"

(***************************************************************************)
(* The JPEG helpers.  window.piexif is the script LoadScripts adds; `lib`  *)
(* tells whether it has arrived.                                           *)
(***************************************************************************)
\* As extractJpgMetadata, with the catch block rejecting.
extractJpgMetadataRejects(file, lib) ==
    IF lib /\ file.exif # << >> THEN Return(JpgMeta(file.exif))
    ELSE Throw(MsgPiexif)

\* reader.onload of extractJpgMetadata: a throw inside the try resolves null.
extractJpgMetadata(file, lib) ==
    IF lib /\ file.exif # << >> THEN Return(JpgMeta(file.exif))
    ELSE Return(NoMeta)

\* As injectJpgMetadata, with the catch block resolving with the file as it is.
injectJpgMetadataSwallows(file, metadataObj, lib) ==
    IF lib /\ file.insertable
    THEN [kind |-> "return", message |-> "", blob |-> metadataObj \o file.bytes]
    ELSE [kind |-> "return", message |-> "", blob |-> file.bytes]

\* reader.onload of injectJpgMetadata: a throw inside the try rejects.
injectJpgMetadata(file, metadataObj, lib) ==
    IF lib /\ file.insertable
    THEN [kind |-> "return", message |-> "", blob |-> metadataObj \o file.bytes]
    ELSE [kind |-> "throw", message |-> MsgPiexif, blob |-> << >>]

(***************************************************************************)
(* The component's state and the values it takes.                          *)
(***************************************************************************)
VARIABLES
    cachedMetadata,   \* useState(null): NoMeta or a { type, data } object
    sourceFileName,   \* useState("")
    processedImage,   \* useState(null): NoImage or { url, name }
    status,           \* useState({ type: 'idle', msg: ... })
    piexif,           \* whether window.piexif is defined
    pending,          \* the handler invocations suspended at their await
    latest,           \* history: the file of the most recently requested
                      \* extract that finds metadata ("" when none)
    buffer,           \* codec run: the input buffer
    text,             \* codec run: the metadata string to inject
    pc,               \* codec run: what has been called so far
    blob,             \* codec run: how injectPngMetadata ended
    result,           \* codec run: how extractPngMetadata ended
    crc,              \* codec run: what crc32 returned
    offset            \* codec run: `offset` of extractPngMetadata's loop

appVars == << cachedMetadata, sourceFileName, processedImage, status, piexif,
              pending, latest >>
codecVars == << buffer, text, pc, blob, result, crc, offset >>
vars == << cachedMetadata, sourceFileName, processedImage, status, piexif,
           pending, latest, buffer, text, pc, blob, result, crc, offset >>

\* null where a { url, name } object is expected; url stands for the Blob.
NoImage == [url |-> << >>, name |-> << >>]
Image(bytes, fileName) == [url |-> bytes, name |-> << "fixed_", fileName >>]

Status(type, msg, detail) == [type |-> type, msg |-> << msg, detail >>]
StIdle == Status("idle", "waiting for a file", "")
StExtracting == Status("loading", "extracting", "")
StWebp == Status("error", "webp is experimental", "")
StSaved(fileName) == Status("success", "metadata saved", fileName)
StNoMetadata == Status("error", "no metadata", "")
StExtractError(message) == Status("error", "error", message)
StExtractFirst == Status("error", "extract first", "")
StInjecting == Status("loading", "injecting", "")
StMismatchPng == Status("error", "mismatch: png", "")
StMismatchJpg == Status("error", "mismatch: jpg", "")
StRestored == Status("success", "metadata restored", "")
StInjectError(message) == Status("error", "inject failed", message)

\* An invocation suspended at its await: the file it reads and, for an
\* inject, the cachedMetadata its closure holds.
Pending(op, fileName, meta) == [op |-> op, file |-> fileName, meta |-> meta]


(***************************************************************************)
(* handleExtract                                                           *)
(***************************************************************************)
\* The call handleExtract awaits, once the file's bytes have been read.
ExtractCall(file, lib) ==
    IF file.type = MimePng
    THEN IF file.readable THEN extractPngMetadata(file.bytes)
         ELSE Throw(MsgNotReadable)
    ELSE extractJpgMetadata(file, lib)

\* As ExtractCache, storing whatever the call ended with.
ExtractCacheAlways(r, cached) == r.value

\* if (result) { setCachedMetadata(result); setSourceFileName(file.name); ... }
ExtractCache(r, cached) ==
    IF r.kind = "return" /\ r.value # NoMeta THEN r.value ELSE cached

ExtractSource(r, fileName, source) ==
    IF r.kind = "return" /\ r.value # NoMeta THEN fileName ELSE source

\* The status the try block or the catch block ends with.
ExtractStatus(r, fileName) ==
    IF r.kind = "throw" THEN StExtractError(r.message)
    ELSE IF r.value # NoMeta THEN StSaved(fileName)
    ELSE StNoMetadata

\* Whether extract on the file reaches setCachedMetadata once the library is
\* there.
FindsMetadata(file) ==
    /\ file.type \in { MimePng, MimeJpeg }
    /\ file.readable
    /\ \E r \in { ExtractCall(file, TRUE) } : r.kind = "return" /\ r.value # NoMeta

\* Whether handleExtract(file), called now, will reach setCachedMetadata.
ExtractSucceeds(file, lib) ==
    FindsMetadata(file) /\ (file.type = MimePng \/ lib)

\* handleExtract(file) up to its await, or to its end when it does not await.
handleExtract(f) ==
    LET file == Files[f]
    IN  /\ processedImage' = NoImage
        /\ IF file.type = MimePng \/ (file.type = MimeJpeg /\ piexif)
           THEN /\ Cardinality(pending) < MaxPending
                /\ pending' = pending \cup { Pending("extract", f, NoMeta) }
                /\ status' = StExtracting
           ELSE /\ pending' = pending
                /\ status' = IF file.type = MimeJpeg
                             THEN StExtractError(MsgPiexifLoading)
                             ELSE IF file.type = MimeWebp THEN StWebp
                             ELSE StNoMetadata
        /\ latest' = IF ExtractSucceeds(file, piexif) THEN f ELSE latest
        /\ UNCHANGED << cachedMetadata, sourceFileName, piexif >>
        /\ UNCHANGED codecVars

\* handleExtract from its await to its end.
extractSettles(p) ==
    LET file == Files[p.file]
    IN  /\ p \in pending
        /\ p.op = "extract"
        /\ file.type = MimePng \/ file.readable
        /\ \E r \in { ExtractCall(file, piexif) } :
             /\ cachedMetadata' = ExtractCache(r, cachedMetadata)
             /\ sourceFileName' = ExtractSource(r, p.file, sourceFileName)
             /\ status' = ExtractStatus(r, p.file)
        /\ pending' = pending \ { p }
        /\ UNCHANGED << processedImage, piexif, latest >>
        /\ UNCHANGED codecVars

\* The FileReader of a JPEG helper fires its error event, which has no
\* handler: the promise never settles and the invocation never resumes.
readerFails(p) ==
    /\ p \in pending
    /\ Files[p.file].type = MimeJpeg
    /\ ~Files[p.file].readable
    /\ pending' = pending \ { p }
    /\ UNCHANGED << cachedMetadata, sourceFileName, processedImage, status, piexif,
                    latest >>
    /\ UNCHANGED codecVars

(***************************************************************************)
(* handleInject                                                            *)
(***************************************************************************)
\* As FormatMismatch, with the second test left out.
FormatMismatchPngOnly(fileType, cachedType) ==
    fileType = MimePng /\ cachedType # "png"

\* The two "Handle Format Mismatch" tests.
FormatMismatch(fileType, cachedType) ==
    \/ fileType = MimePng /\ cachedType # "png"
    \/ fileType = MimeJpeg /\ cachedType # "jpg"

MismatchStatus(fileType) ==
    IF fileType = MimePng THEN StMismatchPng ELSE StMismatchJpg

\* Whether handleInject calls one of the two inject functions for the type.
InjectDispatches(fileType) == fileType = MimePng \/ fileType = MimeJpeg

\* The call handleInject awaits, once the file's bytes have been read.
InjectCall(file, meta, lib) ==
    IF file.type = MimePng
    THEN IF file.readable THEN injectPngMetadata(file.bytes, meta.data)
         ELSE [kind |-> "throw", message |-> MsgNotReadable, blob |-> << >>]
    ELSE injectJpgMetadata(file, meta.data, lib)

\* As handleInject, without the test of the cache.
handleInjectNoGuard(f) ==
    LET file == Files[f]
    IN  /\ IF FormatMismatch(file.type, cachedMetadata.type)
           THEN /\ status' = MismatchStatus(file.type)
                /\ pending' = pending
           ELSE IF InjectDispatches(file.type)
           THEN /\ Cardinality(pending) < MaxPending
                /\ status' = StInjecting
                /\ pending' = pending \cup { Pending("inject", f, cachedMetadata) }
           ELSE /\ status' = StInjecting
                /\ pending' = pending
        /\ UNCHANGED << cachedMetadata, sourceFileName, processedImage, piexif,
                        latest >>
        /\ UNCHANGED codecVars

\* handleInject(file) up to its await, or to its end when it does not await.
handleInject(f) ==
    LET file == Files[f]
    IN  /\ IF cachedMetadata = NoMeta
           THEN /\ status' = StExtractFirst
                /\ pending' = pending
           ELSE IF FormatMismatch(file.type, cachedMetadata.type)
           THEN /\ status' = MismatchStatus(file.type)
                /\ pending' = pending
           ELSE IF InjectDispatches(file.type)
           THEN /\ Cardinality(pending) < MaxPending
                /\ status' = StInjecting
                /\ pending' = pending \cup { Pending("inject", f, cachedMetadata) }
           ELSE \* finalBlob stays null: nothing follows setStatus(loading)
                /\ status' = StInjecting
                /\ pending' = pending
        /\ UNCHANGED << cachedMetadata, sourceFileName, processedImage, piexif,
                        latest >>
        /\ UNCHANGED codecVars

\* handleInject from its await to its end.
injectSettles(p) ==
    LET file == Files[p.file]
    IN  /\ p \in pending
        /\ p.op = "inject"
        /\ file.type = MimePng \/ file.readable
        /\ \E r \in { InjectCall(file, p.meta, piexif) } :
             IF r.kind = "return"
             THEN /\ processedImage' = Image(r.blob, p.file)
                  /\ status' = StRestored
             ELSE /\ processedImage' = processedImage
                  /\ status' = StInjectError(r.message)
        /\ pending' = pending \ { p }
        /\ UNCHANGED << cachedMetadata, sourceFileName, piexif, latest >>
        /\ UNCHANGED codecVars

\* The script LoadScripts appended has loaded: window.piexif is defined.
scriptLoads ==
    /\ ~piexif
    /\ piexif' = TRUE
    /\ UNCHANGED << cachedMetadata, sourceFileName, processedImage, status, pending,
                    latest >>
    /\ UNCHANGED codecVars

(***************************************************************************)
(* The application: any file may be dropped on either zone at any time,    *)
(* and suspended invocations resume in any order.                          *)
(***************************************************************************)
NotCalled == [kind |-> "none", message |-> "", value |-> NoMeta]
NoBlob == [kind |-> "none", message |-> "", blob |-> << >>]

CodecIdle ==
    /\ buffer = << >>
    /\ text = << >>
    /\ pc = "off"
    /\ blob = NoBlob
    /\ result = NotCalled
    /\ crc = 0
    /\ offset = 0

AppInitial ==
    /\ cachedMetadata = NoMeta
    /\ sourceFileName = ""
    /\ processedImage = NoImage
    /\ status = StIdle
    /\ piexif = FALSE
    /\ pending = { }
    /\ latest = ""

Init == AppInitial /\ CodecIdle

Next ==
    \/ \E f \in FileNames : handleExtract(f)
    \/ \E p \in pending : extractSettles(p)
    \/ \E f \in FileNames : handleInject(f)
    \/ \E p \in pending : injectSettles(p)
    \/ \E p \in pending : readerFails(p)
    \/ scriptLoads

Spec == Init /\ [][Next]_vars

(***************************************************************************)
(* The two PNG functions on their own: an input buffer and a metadata      *)
(* string are drawn, then the functions are called on them.                *)
(***************************************************************************)
\* Buffers every text is injected into.
InjectTargets == PlainPngs \cup { MkPng(MkText(KeyParameters, << 66 >>)) }

CodecInit ==
    /\ AppInitial
    /\ pc = "ready"
    /\ blob = NoBlob
    /\ result = NotCalled
    /\ crc = 0
    /\ offset = 0
    /\ \/ buffer \in PngInputs /\ text \in { << 65 >> }
       \/ buffer \in InjectTargets /\ text \in Texts

\* extractPngMetadata(buffer)
callExtract ==
    /\ pc = "ready"
    /\ result' = extractPngMetadata(buffer)
    /\ pc' = "extracted"
    /\ UNCHANGED << buffer, text, blob, crc, offset >>
    /\ UNCHANGED appVars

\* injectPngMetadata(buffer, text)
callInject ==
    /\ pc = "ready"
    /\ blob' = injectPngMetadata(buffer, text)
    /\ pc' = "injected"
    /\ UNCHANGED << buffer, text, result, crc, offset >>
    /\ UNCHANGED appVars

\* extractPngMetadata on the Blob injectPngMetadata returned.
callExtractOnBlob ==
    /\ pc = "injected"
    /\ blob.kind = "return"
    /\ result' = extractPngMetadata(blob.blob)
    /\ pc' = "reextracted"
    /\ UNCHANGED << buffer, text, blob, crc, offset >>
    /\ UNCHANGED appVars

CodecNext == callExtract \/ callInject \/ callExtractOnBlob

CodecSpec == CodecInit /\ [][CodecNext]_vars

(***************************************************************************)
(* crc32 on its own: a byte sequence is drawn, then crc32 is called on it. *)
(***************************************************************************)
\* Longest drawn byte sequence.
MaxCrcLen == 3

CrcBytes == { 0, 1, 73, 128, 255 }

\* "IEND" and "123456789", whose CRC-32 values are published.
CrcVectors == { << 73, 69, 78, 68 >>, << 49, 50, 51, 52, 53, 54, 55, 56, 57 >> }

CrcInputs == SeqsUpTo(CrcBytes, MaxCrcLen) \cup CrcVectors

CrcInit ==
    /\ AppInitial
    /\ pc = "ready"
    /\ text = << >>
    /\ blob = NoBlob
    /\ result = NotCalled
    /\ crc = 0
    /\ offset = 0
    /\ buffer \in CrcInputs

\* crc32(buffer)
callCrc32 ==
    /\ pc = "ready"
    /\ crc' = crc32(buffer)
    /\ pc' = "crc"
    /\ UNCHANGED << buffer, text, blob, result, offset >>
    /\ UNCHANGED appVars

CrcNext == callCrc32

CrcSpec == CrcInit /\ [][CrcNext]_vars


(***************************************************************************)
(* What a PNG holds, read off its bytes independently of the functions     *)
(* above; used to state the properties.  Only applied to well-formed PNGs. *)
(***************************************************************************)
HasPngSignature(buf) == Len(buf) >= 8 /\ SubSeq(buf, 1, 8) = Signature

\* The big-endian number in the four bytes at off.
BigEndian(buf, off) ==
    ((buf[off + 1] * 256 + buf[off + 2]) * 256 + buf[off + 3]) * 256 + buf[off + 4]

\* The chunks of a well-formed PNG from offset off on, in file order.
RECURSIVE ChunksFrom(_, _)
ChunksFrom(buf, off) ==
    IF off >= Len(buf) THEN << >>
    ELSE << [type |-> SubSeq(buf, off + 5, off + 8),
             data |-> SubSeq(buf, off + 9, off + 8 + BigEndian(buf, off)),
             at |-> off] >>
         \o ChunksFrom(buf, off + 12 + BigEndian(buf, off))

Chunks(buf) == ChunksFrom(buf, 8)

\* The part of a chunk's data before / after its first 0 byte.
HasSeparator(data) == \E i \in 1..Len(data) : data[i] = 0
FirstZero(data) == CHOOSE i \in 1..Len(data) : data[i] = 0 /\ \A j \in 1..(i - 1) : data[j] # 0
KeywordOf(data) == SubSeq(data, 1, FirstZero(data) - 1)
TextOf(data) == SubSeq(data, FirstZero(data) + 1, Len(data))

\* The tEXt chunks with a separator whose keyword reads as one of `keywords`
\* (strings), in file order, as << keyword, text >> pairs of strings.
RECURSIVE EntriesIn(_, _, _)
EntriesIn(chunks, i, keywords) ==
    IF i > Len(chunks) THEN << >>
    ELSE IF /\ chunks[i].type = StrTEXt
            /\ HasSeparator(chunks[i].data)
            /\ Utf8Decode(KeywordOf(chunks[i].data)) \in keywords
         THEN << << Utf8Decode(KeywordOf(chunks[i].data)),
                    Utf8Decode(TextOf(chunks[i].data)) >> >>
              \o EntriesIn(chunks, i + 1, keywords)
    ELSE EntriesIn(chunks, i + 1, keywords)

Entries(buf, keywords) == EntriesIn(Chunks(buf), 1, keywords)

HasTextChunk(buf) == \E i \in 1..Len(Chunks(buf)) : Chunks(buf)[i].type = StrTEXt

\* The three keywords of the convention, as strings.
ConventionKeywords == { StrParameters, << 112, 114, 111, 109, 112, 116 >>,
                        << 119, 111, 114, 107, 102, 108, 111, 119 >> }

\* A string with no unpaired surrogate.
WellFormedString(str) ==
    \A i \in 1..Len(str) :
        /\ IsHighSurrogate(str[i]) => i < Len(str) /\ IsLowSurrogate(str[i + 1])
        /\ IsLowSurrogate(str[i]) => i > 1 /\ IsHighSurrogate(str[i - 1])

(***************************************************************************)
(* Properties of the two PNG functions, under CodecSpec.                   *)
(***************************************************************************)

\* C1 (as specified): for every valid PNG with no tEXt chunk and every non-empty
\* text, extracting from the injected file returns png metadata whose text is
\* exactly the injected text.
C1_RoundTripAnyText ==
    (pc = "reextracted" /\ buffer \in ValidPngs /\ ~HasTextChunk(buffer)
       /\ text # << >>)
    => result = Return(PngMeta(text))

\* C1 (amended): the round trip returns exactly the injected text for every
\* non-empty text that has no unpaired surrogate and does not start with
\* U+FEFF.
C1_RoundTrip ==
    (pc = "reextracted" /\ buffer \in ValidPngs /\ ~HasTextChunk(buffer)
       /\ text # << >> /\ WellFormedString(text) /\ text[1] # BOM)
    => result = Return(PngMeta(text))

\* C1 witness: a two-character non-ASCII text has made the round trip through
\* a PNG that had no tEXt chunk.
C1_Witness ==
    /\ pc = "reextracted"
    /\ buffer = MkPng(<< >>)
    /\ text = << 233, 8364 >>
    /\ result = Return(PngMeta(text))

\* C2 (as specified): after inject on a valid PNG the header chunk is still the
\* first chunk after the signature and the new tEXt chunk starts right behind
\* it, at headerEnd = 8 + 4 + 4 + headerLength + 4.
C2_ChunkAfterHeader ==
    (pc = "injected" /\ buffer \in ValidPngs)
    => LET headerEnd == 8 + 4 + 4 + BigEndian(buffer, 8) + 4
           chunk == ChunkBuffer(StrParameters, text)
       IN  /\ blob.kind = "return"
           /\ SubSeq(blob.blob, 1, headerEnd) = SubSeq(buffer, 1, headerEnd)
           /\ SubSeq(blob.blob, headerEnd + 1, headerEnd + Len(chunk)) = chunk

\* C3: a step of inject leaves the input buffer as it was, and for every input
\* of at least 8 bytes its output is 12 + len(keyword) + 1 + len(text) bytes
\* longer (lengths in encoded bytes), holds the new tEXt chunk, and is the
\* input again once those bytes are cut out.
C3_NoLossNoDuplication ==
    [][callInject =>
         /\ buffer' = buffer
         /\ Len(buffer) >= 8 =>
              LET n == 12 + Len(Utf8Encode(StrParameters)) + 1 + Len(Utf8Encode(text))
                  out == blob'.blob
              IN  /\ blob'.kind = "return"
                  /\ Len(out) = Len(buffer) + n
                  /\ \E k \in 0..Len(buffer) :
                       /\ SubSeq(out, k + 5, k + 8) = StrTEXt
                       /\ SubSeq(out, k + 9, k + n - 4)
                            = Utf8Encode(StrParameters) \o << 0 >> \o Utf8Encode(text)
                       /\ SubSeq(out, 1, k) \o SubSeq(out, k + n + 1, Len(out)) = buffer
    ]_vars

\* C3 witness: inject has returned a buffer 28 bytes longer than a PNG input,
\* for a text of two characters that take 5 bytes.
C3_Witness ==
    /\ pc = "injected"
    /\ blob.kind = "return"
    /\ buffer = MkPng(<< >>)
    /\ text = << 233, 8364 >>
    /\ Len(blob.blob) = Len(buffer) + 28

C10_PresenceIffEntry ==
    (pc = "extracted" /\ buffer \in ValidPngs)
    => /\ result.kind = "return"
       /\ (result.value # NoMeta) <=> (Entries(buffer, { StrParameters }) # << >>)


(***************************************************************************)
(* Properties of the two handlers, under Spec.                             *)
(***************************************************************************)
\* A file declared png whose bytes can be read and do not start with the
\* signature.
BrokenPng(f) ==
    /\ Files[f].type = MimePng
    /\ Files[f].readable
    /\ ~HasPngSignature(Files[f].bytes)

\* C4 (as specified): an inject on a file declared png whose first 8 bytes are
\* not the PNG signature ends with an error status and sets no output image.
C4_InjectSignatureGuard ==
    [][\A p \in pending :
         (BrokenPng(p.file) /\ injectSettles(p))
         => status'.type = "error" /\ processedImage' = processedImage
    ]_vars

\* C5: an extract on a file declared png whose first 8 bytes are not the PNG
\* signature ends with an error status that does not depend on the chunks
\* behind the signature (the invalid-PNG error, or, only when the file is
\* shorter than 8 bytes, a range error), and caches nothing.
C5_ExtractSignatureGuard ==
    [][\A p \in pending :
         (BrokenPng(p.file) /\ extractSettles(p))
         => /\ status'.type = "error"
            /\ status' \in { StExtractError(MsgInvalidPng), StExtractError(MsgRange) }
            /\ Len(Files[p.file].bytes) >= 8 => status' = StExtractError(MsgInvalidPng)
            /\ cachedMetadata' = cachedMetadata
            /\ sourceFileName' = sourceFileName
    ]_vars

\* C5 witness: with nothing cached, the extract of the file whose signature
\* is altered (and which holds a `parameters` chunk) has ended with the
\* invalid-PNG error.
C5_Witness ==
    /\ status = StExtractError(MsgInvalidPng)
    /\ cachedMetadata = NoMeta
    /\ ~HasPngSignature(Files["badsig.png"].bytes)
    /\ \A p \in pending : p.file # "badsig.png"

\* The file's declared type is the one the variant tag does not go with.
OtherVariant(fileType, tag) ==
    \/ tag = "png" /\ fileType = MimeJpeg
    \/ tag = "jpg" /\ fileType = MimePng

\* C6: an inject called while the cache holds one variant, on a file declared
\* as the other type, ends at once with an error status, awaits no read of the
\* file and sets no output image; and an output image is only ever set by an
\* inject whose file's declared type goes with the variant tag of the
\* metadata it was called with.
C6_FormatMismatch ==
    [][/\ \A f \in FileNames :
            (handleInject(f) /\ cachedMetadata # NoMeta
               /\ OtherVariant(Files[f].type, cachedMetadata.type))
            => /\ status'.type = "error"
               /\ pending' = pending
               /\ processedImage' = processedImage
       /\ \A p \in pending :
            (p.op = "inject" /\ pending' = pending \ { p } /\ status' = StRestored
               /\ processedImage' = Image(processedImage'.url, p.file))
            => \/ p.meta.type = "png" /\ Files[p.file].type = MimePng
               \/ p.meta.type = "jpg" /\ Files[p.file].type = MimeJpeg
    ]_vars

\* C6 witness: png metadata is cached and an inject on a JPEG file has ended
\* with the mismatch error, no invocation suspended, no output image.
C6_Witness ==
    /\ cachedMetadata.type = "png"
    /\ status = StMismatchJpg
    /\ pending = { }
    /\ processedImage = NoImage

\* C7 (as specified): extract and inject on a file declared webp both end with
\* an error status, whatever the cache holds, cache nothing and set no output
\* image.
C7_WebpRejected ==
    [][\A f \in FileNames :
         (Files[f].type = MimeWebp /\ (handleExtract(f) \/ handleInject(f)))
         => /\ status'.type = "error"
            /\ pending' = pending
            /\ cachedMetadata' = cachedMetadata
            /\ sourceFileName' = sourceFileName
            /\ processedImage' \in { processedImage, NoImage }
    ]_vars

\* C8: the cached metadata and its source file name change only in the step
\* that ends a successful extract (status: saved, for the file extracted);
\* every step that ends in an error status, and every step of inject, leaves
\* both as they were.
C8_CacheUntouchedOnFailure ==
    [][/\ (cachedMetadata' # cachedMetadata \/ sourceFileName' # sourceFileName)
            => \E p \in pending :
                 /\ p.op = "extract"
                 /\ extractSettles(p)
                 /\ status' = StSaved(p.file)
                 /\ cachedMetadata' # NoMeta
                 /\ sourceFileName' = p.file
       /\ \A p \in pending :
            (p.op = "extract" /\ status'.type # "success" /\ extractSettles(p))
            => cachedMetadata' = cachedMetadata /\ sourceFileName' = sourceFileName
       /\ \A f \in FileNames :
            handleExtract(f)
            => cachedMetadata' = cachedMetadata /\ sourceFileName' = sourceFileName
    ]_vars

\* C8 witness: the metadata of a.png is cached, and a later extract of a file
\* with a truncated chunk has ended with an error, the cache still that of
\* a.png.
C8_Witness ==
    /\ cachedMetadata = PngMeta(<< 65 >>)
    /\ sourceFileName = "a.png"
    /\ status = StExtractError(MsgRange)
    /\ pending = { }


(***************************************************************************)
(* The PNG CRC-32, computed bit by bit on sets of bit positions (bit 0 is   *)
(* the least significant), independently of the operators above.           *)
(***************************************************************************)
\* The bits set in the reflected polynomial 0xEDB88320.
RefPolyBits == { 31, 30, 29, 27, 26, 24, 23, 21, 20, 19, 15, 9, 8, 5 }

RefAllOnes == 0..31

RefXor(x, y) == (x \ y) \cup (y \ x)

RefShiftRight(x) == { i - 1 : i \in x \ { 0 } }

\* k times: shift right by one, and XOR the polynomial in when a 1 fell out.
RECURSIVE RefIterate(_, _)
RefIterate(x, k) ==
    IF k = 0 THEN x
    ELSE RefIterate(IF 0 \in x THEN RefXor(RefShiftRight(x), RefPolyBits)
                    ELSE RefShiftRight(x),
                    k - 1)

\* The bits of a byte, and of an int32 read as a uint32.
ByteBits(b) == { i \in 0..7 : (b \div (2 ^ i)) % 2 = 1 }
Int32Bits(v) ==
    { i \in 0..30 : (v \div (2 ^ i)) % 2 = 1 } \cup (IF v < 0 THEN { 31 } ELSE { })

RECURSIVE RefBytes(_, _, _)
RefBytes(b, n, x) ==
    IF n > Len(b) \/ x \notin SUBSET RefAllOnes THEN x
    ELSE RefBytes(b, n + 1, RefIterate(RefXor(x, ByteBits(b[n])), 8))

RefCrc32(b) == RefXor(RefBytes(b, 1, RefAllOnes), RefAllOnes)

\* Entry n of the table is 8 iterations applied to n, for every n.
TableMatchesReference ==
    \A n \in 0..255 : Int32Bits(crcTable[n + 1]) = RefIterate(ByteBits(n), 8)

(***************************************************************************)
(* Properties of crc32, under CrcSpec.                                     *)
(***************************************************************************)
\* C11: what crc32 returned for a byte sequence is, read as an unsigned 32-bit
\* value, the PNG CRC-32 of the sequence computed bit by bit (polynomial
\* 0xEDB88320, initial value and final XOR 0xFFFFFFFF), and every entry n of
\* the table is 8 shift/XOR iterations applied to n.
C11_CrcMatchesReference ==
    pc = "crc" => /\ Int32Bits(crc) = RefCrc32(buffer)
                  /\ TableMatchesReference

\* C11 witness: crc32 has returned 0xCBF43926 (as an int32) for "123456789".
C11_Witness ==
    /\ pc = "crc"
    /\ buffer = << 49, 50, 51, 52, 53, 54, 55, 56, 57 >>
    /\ Int32Bits(crc) = { 31, 30, 27, 25, 24, 23, 22, 21, 20, 18, 13, 12, 11, 8, 5, 2, 1 }
    /\ Int32Bits(crc) = RefCrc32(buffer)


(***************************************************************************)
(* Properties of the chunk injectPngMetadata writes, under CodecSpec.      *)
(***************************************************************************)
\* The bits of a 4-byte big-endian field.
FieldBits(bytes) ==
    UNION { { 8 * (4 - k) + i : i \in ByteBits(bytes[k]) } : k \in 1..4 }

\* C12: the chunk inject has written (the bytes of its output from offset 8
\* on) has a big-endian length field equal to len(keyword) + 1 + len(text) in
\* encoded bytes, the type tEXt, the data keyword ++ 0x00 ++ text, and a
\* big-endian CRC field equal to the CRC-32 of type ++ data.
C12_WellFormedChunk ==
    (pc = "injected" /\ blob.kind = "return")
    => LET data == Utf8Encode(StrParameters) \o << 0 >> \o Utf8Encode(text)
           chunk == SubSeq(blob.blob, 9, 8 + 12 + Len(data))
       IN  /\ Len(chunk) = 12 + Len(data)
           /\ BigEndian(chunk, 0) = Len(Utf8Encode(StrParameters)) + 1 + Len(Utf8Encode(text))
           /\ SubSeq(chunk, 5, 8) = << 116, 69, 88, 116 >>
           /\ SubSeq(chunk, 9, 8 + Len(data)) = data
           /\ FieldBits(SubSeq(chunk, 9 + Len(data), 12 + Len(data)))
                = RefCrc32(<< 116, 69, 88, 116 >> \o data)

\* C12 witness: inject has written the chunk for the text "A": length 12,
\* type tEXt, data `parameters` 0x00 `A`, and the CRC-32 of type and data.
C12_Witness ==
    /\ pc = "injected"
    /\ blob.kind = "return"
    /\ text = << 65 >>
    /\ SubSeq(blob.blob, 9, 28)
         = << 0, 0, 0, 12, 116, 69, 88, 116,
              112, 97, 114, 97, 109, 101, 116, 101, 114, 115, 0, 65 >>
    /\ FieldBits(SubSeq(blob.blob, 29, 32)) = RefCrc32(SubSeq(blob.blob, 13, 28))


(***************************************************************************)
(* Properties of overlapping invocations, under Spec.                      *)
(***************************************************************************)
\* C13 (as specified): once no extract invocation is suspended any more, the
\* cache holds the metadata and the source file name of the most recently
\* requested extract that finds metadata, in whatever order the overlapping
\* invocations got their file bytes.
C13_LatestExtractWins ==
    (latest # "" /\ \A p \in pending : p.op # "extract")
    => /\ sourceFileName = latest
       /\ cachedMetadata = ExtractCall(Files[latest], TRUE).value


(***************************************************************************)
(* Progress of the handlers, under Spec.                                   *)
(***************************************************************************)
\* The read the suspended invocation awaits settles: file.arrayBuffer()
\* resolves or rejects, a FileReader fires its load event.
CanResume(p) == Files[p.file].type = MimePng \/ Files[p.file].readable

\* C14 (as specified): the status does not stay `loading` forever: whenever it
\* is `loading`, some invocation is still suspended whose read will settle, so
\* that the handler resumes and sets a terminal status.
C14_TerminalResult ==
    status.type = "loading" => \E p \in pending : CanResume(p)

(***************************************************************************)
(* Properties of the JPEG paths, under Spec.                               *)
(***************************************************************************)
\* A readable file declared image/jpeg on which piexif.load throws.
LoadThrows(f) ==
    Files[f].type = MimeJpeg /\ Files[f].readable /\ Files[f].exif = << >>

\* C15: when piexif.load throws on the file, the extract ends with the
\* "no metadata" status, not with the status of a caught exception, and the
\* cached metadata and its source file name stay as they were.
C15_DecodeFailureDowngraded ==
    [][\A p \in pending :
         (p.op = "extract" /\ LoadThrows(p.file) /\ extractSettles(p))
         => /\ status' = StNoMetadata
            /\ cachedMetadata' = cachedMetadata
            /\ sourceFileName' = sourceFileName
    ]_vars

\* C15 witness: with the library loaded and the metadata of photo.jpg cached,
\* an extract has ended with "no metadata"; the cache is still that of
\* photo.jpg.
C15_Witness ==
    /\ piexif
    /\ status = StNoMetadata
    /\ cachedMetadata = JpgMeta(<< 1 >>)
    /\ sourceFileName = "photo.jpg"
    /\ LoadThrows("broken.jpg")
    /\ pending = { }

\* A readable file declared image/jpeg on which piexif.dump or piexif.insert
\* throws, or for which the library is not there.
EncodeFails(f, lib) ==
    Files[f].type = MimeJpeg /\ Files[f].readable /\ ~(lib /\ Files[f].insertable)

\* C16: when piexif.dump or piexif.insert throws (or the library is missing)
\* during an inject, the inject ends with the injection-failure error status
\* and the output image is left as it was: none is produced, none replaced.
C16_EncodeFailureSurfaced ==
    [][\A p \in pending :
         (p.op = "inject" /\ EncodeFails(p.file, piexif) /\ injectSettles(p))
         => /\ status' = StInjectError(MsgPiexif)
            /\ status'.type = "error"
            /\ processedImage' = processedImage
    ]_vars

\* C16 witness: after an inject on photo.jpg produced an output image, an
\* inject on a file piexif.insert throws on has ended with the
\* injection-failure status; the output image is still that of photo.jpg.
C16_Witness ==
    /\ status = StInjectError(MsgPiexif)
    /\ processedImage = Image(<< 1 >> \o JpegBytes, "photo.jpg")
    /\ EncodeFails("broken.jpg", piexif)
    /\ pending = { }


(***************************************************************************)
(* Properties of the output image, under Spec.                             *)
(***************************************************************************)
\* C17 (as specified): a new inject request discards the output image of the
\* previous injection, and after an inject that ends in an error (format
\* mismatch, adapter failure, unsupported type) no output image remains.
C17_ImageDiscardedOnNewInject ==
    [][/\ \A f \in FileNames :
            (cachedMetadata # NoMeta /\ handleInject(f)) => processedImage' = NoImage
       /\ \A p \in pending :
            (p.op = "inject" /\ pending' = pending \ { p } /\ status'.type = "error"
               /\ status' # status)
            => processedImage' = NoImage
    ]_vars


\* C18 (as specified): in every reachable state a displayed output image was
\* produced from the metadata that is in the cache now: it is what the inject
\* function returns for its file and the cached metadata.
C18_NoStaleOutput ==
    processedImage # NoImage
    => \E f \in FileNames :
         /\ processedImage.name = << "fixed_", f >>
         /\ cachedMetadata # NoMeta
         /\ ~FormatMismatch(Files[f].type, cachedMetadata.type)
         /\ \E r \in { InjectCall(Files[f], cachedMetadata, piexif) } :
              r.kind = "return" /\ processedImage.url = r.blob


(***************************************************************************)
(* The while loop of extractPngMetadata, one iteration at a time.          *)
(***************************************************************************)
\* The loop goes on to its next iteration.
Continue == [kind |-> "continue", message |-> "", value |-> NoMeta]

\* One evaluation of the loop condition and, when it holds, of the loop body
\* at `off`: Continue, or how the function ends there.
Iteration(buf, off) ==
    IF ~(off < Len(buf)) THEN Return(ExtractResult(<< >>))
    ELSE IF off + 8 > Len(buf) THEN Throw(MsgRange)
    ELSE
      LET length == U32Value(GetUint32(buf, off))
          chunkData == Slice(buf, off + 8, length)
          nullIndex == NullIndex(chunkData)
      IN  IF Utf8Decode(Slice(buf, off + 4, 4)) # StrTEXt THEN Continue
          ELSE IF off + 8 + length > Len(buf) THEN Throw(MsgRange)
          ELSE IF nullIndex > -1
                  /\ KeywordMatches(Utf8Decode(Slice(chunkData, 0, nullIndex)))
          THEN Return(ExtractResult(
                   Utf8Decode(Slice(chunkData, nullIndex + 1, length - nullIndex - 1))))
          ELSE Continue

\* Buffers that start with the signature: the PNGs, the cut ones, chunks of
\* length zero only, and a length field that points far past the end.
WalkInputs ==
    { b \in PngInputs : HasPngSignature(b) }
      \cup { Signature \o ChunkIEND \o ChunkIEND \o ChunkIEND,
             Signature \o MkChunk(StrTEXt, << >>) \o MkChunk(StrTEXt, << >>),
             Signature \o << 0, 255, 255, 255 >> \o TypeIDAT \o << 1 >> \o ChunkIEND }

WalkInit ==
    /\ AppInitial
    /\ pc = "ready"
    /\ text = << >>
    /\ blob = NoBlob
    /\ result = NotCalled
    /\ crc = 0
    /\ offset = 0
    /\ buffer \in WalkInputs

\* The signature test passed: let offset = 8.
walkStart ==
    /\ pc = "ready"
    /\ SignatureOk(buffer)
    /\ pc' = "walking"
    /\ offset' = 8
    /\ UNCHANGED << buffer, text, blob, result, crc >>
    /\ UNCHANGED appVars

\* One iteration that ends with offset += 12 + length.
walkStep ==
    /\ pc = "walking"
    /\ Iteration(buffer, offset) = Continue
    /\ offset' = NextOffset(offset, U32Value(GetUint32(buffer, offset)))
    /\ UNCHANGED << buffer, text, pc, blob, result, crc >>
    /\ UNCHANGED appVars

\* The loop is left (condition false, or break) or an exception is thrown.
walkEnd ==
    /\ pc = "walking"
    /\ Iteration(buffer, offset) # Continue
    /\ result' = Iteration(buffer, offset)
    /\ pc' = "walked"
    /\ UNCHANGED << buffer, text, blob, crc, offset >>
    /\ UNCHANGED appVars

WalkNext == walkStart \/ walkStep \/ walkEnd

WalkSpec == WalkInit /\ [][WalkNext]_vars /\ WF_vars(WalkNext)


(***************************************************************************)
(* Properties of the chunk walk, under WalkSpec.                           *)
(***************************************************************************)
\* The iteration at `off` reads past the end of the buffer: the chunk's
\* length and type, or the data of a tEXt chunk.
ReadsPastEnd(buf, off) ==
    \/ off + 8 > Len(buf)
    \/ /\ SubSeq(buf, off + 5, off + 8) = << 116, 69, 88, 116 >>
       /\ off + 8 + BigEndian(buf, off) > Len(buf)

Malformed(chunk) == chunk.type = StrTEXt /\ ~HasSeparator(chunk.data)

\* The bytes of chunks i.. of a file, the malformed tEXt chunks left out.
RECURSIVE KeepWellFormed(_, _, _)
KeepWellFormed(buf, chunks, i) ==
    IF i > Len(chunks) THEN << >>
    ELSE (IF Malformed(chunks[i]) THEN << >>
          ELSE SubSeq(buf, chunks[i].at + 1, chunks[i].at + 12 + Len(chunks[i].data)))
         \o KeepWellFormed(buf, chunks, i + 1)

WithoutMalformed(buf) == Signature \o KeepWellFormed(buf, Chunks(buf), 1)

\* Chunk j is a `parameters` entry with a non-empty text, the first
\* `parameters` entry of the file, and comes after a malformed tEXt chunk.
LaterEntry(chunks, j) ==
    /\ chunks[j].type = StrTEXt
    /\ HasSeparator(chunks[j].data)
    /\ KeywordOf(chunks[j].data) = StrParameters
    /\ TextOf(chunks[j].data) # << >>
    /\ \E i \in 1..(j - 1) : Malformed(chunks[i])
    /\ \A i \in 1..(j - 1) :
          ~(/\ chunks[i].type = StrTEXt
            /\ HasSeparator(chunks[i].data)
            /\ KeywordOf(chunks[i].data) = StrParameters)

\* C20: for a valid PNG that holds a tEXt chunk with no 0 byte in its data,
\* extract returns (the walk is not stopped by a failure), it returns what it
\* returns for the same file with the malformed chunks taken out, and when a
\* later chunk is the file's first `parameters` entry, with a non-empty text,
\* that text is the result.
C20_MalformedTextSkipped ==
    (/\ pc = "extracted"
     /\ buffer \in ValidPngs
     /\ \E i \in 1..Len(Chunks(buffer)) : Malformed(Chunks(buffer)[i]))
    => /\ result.kind = "return"
       /\ result = extractPngMetadata(WithoutMalformed(buffer))
       /\ \A j \in 1..Len(Chunks(buffer)) :
             LaterEntry(Chunks(buffer), j)
             => result.value = PngMeta(Utf8Decode(TextOf(Chunks(buffer)[j].data)))

\* C20 witness: extract has returned the text "C" of the `parameters` entry
\* that follows two tEXt chunks without a separator, the second of which
\* starts with the bytes of `parameters`.
C20_Witness ==
    /\ pc = "extracted"
    /\ buffer = MkPng(MkChunk(StrTEXt, << 65 >>)
                        \o MkChunk(StrTEXt, StrParameters \o << 66 >>)
                        \o MkText(KeyParameters, << 67 >>))
    /\ Malformed(Chunks(buffer)[2]) /\ Malformed(Chunks(buffer)[3])
    /\ LaterEntry(Chunks(buffer), 4)
    /\ result = Return(PngMeta(<< 67 >>))

(***************************************************************************)
(* injectPngMetadata called on its own output: a text is injected into a   *)
(* target, another text into the file that came out, and the last file is  *)
(* read by extractPngMetadata.  buffer is the target of the latest call,   *)
(* text its metadataString, blob what it returned.                         *)
(***************************************************************************)
\* The texts of the first call.
FirstTexts == { << 65 >>, << 233, 8364 >>, << 65279 >> }

RepeatInit ==
    /\ AppInitial
    /\ pc = "ready"
    /\ blob = NoBlob
    /\ result = NotCalled
    /\ crc = 0
    /\ offset = 0
    /\ buffer \in InjectTargets
    /\ text \in FirstTexts

\* injectPngMetadata(buffer, text)
injectOnce ==
    /\ pc = "ready"
    /\ blob' = injectPngMetadata(buffer, text)
    /\ pc' = "once"
    /\ UNCHANGED << buffer, text, result, crc, offset >>
    /\ UNCHANGED appVars

\* injectPngMetadata(the file of the call before, t2)
injectAgain(t2) ==
    /\ pc = "once"
    /\ blob.kind = "return"
    /\ buffer' = blob.blob
    /\ text' = t2
    /\ blob' = injectPngMetadata(blob.blob, t2)
    /\ pc' = "twice"
    /\ UNCHANGED << result, crc, offset >>
    /\ UNCHANGED appVars

\* extractPngMetadata on the file of the latest call.
extractLatest ==
    /\ pc \in { "once", "twice" }
    /\ blob.kind = "return"
    /\ result' = extractPngMetadata(blob.blob)
    /\ pc' = IF pc = "once" THEN "read once" ELSE "read twice"
    /\ UNCHANGED << buffer, text, blob, crc, offset >>
    /\ UNCHANGED appVars

RepeatNext ==
    \/ injectOnce
    \/ \E t2 \in Texts : injectAgain(t2)
    \/ extractLatest

RepeatSpec == RepeatInit /\ [][RepeatNext]_vars

(***************************************************************************)
(* C21: repeated injection                                                 *)
(***************************************************************************)
\* The chunks of `after` are one new chunk followed by the chunks of
\* `before`, byte for byte.
KeepsEveryChunk(before, after) ==
    /\ Len(Chunks(after)) = Len(Chunks(before)) + 1
    /\ \A i \in 1..Len(Chunks(before)) :
          /\ Chunks(after)[i + 1].type = Chunks(before)[i].type
          /\ Chunks(after)[i + 1].data = Chunks(before)[i].data
    /\ SubSeq(after, Chunks(after)[2].at + 1, Len(after))
          = SubSeq(before, 9, Len(before))

\* The number of `parameters` entries of a file.
ParametersChunks(buf) == Len(Entries(buf, { StrParameters }))

\* A call of inject on a target that held a `parameters` chunk has returned,
\* and, where pc tells so, extract has read the file it made.
InjectedOver(stage) ==
    /\ pc \in stage
    /\ blob.kind = "return"
    /\ ParametersChunks(buffer) >= 1

\* C21 (as specified): inject keeps every chunk of its target, so a second
\* injection leaves a file with two `parameters` chunks, and extract on the
\* file made from a target that already held a `parameters` chunk returns the
\* text of the latest injection, whatever that text is.
C21_LatestTextAnyText ==
    /\ InjectedOver({ "once", "twice", "read once", "read twice" })
       => /\ KeepsEveryChunk(buffer, blob.blob)
          /\ ParametersChunks(blob.blob) = ParametersChunks(buffer) + 1
    /\ InjectedOver({ "read once", "read twice" })
       => result = Return(PngMeta(text))

\* C21 (amended): as above, the text of the latest injection being returned
\* when it is non-empty, has no unpaired surrogate and does not start with
\* U+FEFF; for the empty text and for the text U+FEFF alone extract returns
\* null, not the text of the older chunk, and for every text it returns what
\* the decoder makes of the bytes the encoder wrote for it.
C21_LatestTextReturned ==
    /\ InjectedOver({ "once", "twice", "read once", "read twice" })
       => /\ KeepsEveryChunk(buffer, blob.blob)
          /\ ParametersChunks(blob.blob) = ParametersChunks(buffer) + 1
    /\ InjectedOver({ "read once", "read twice" })
       => /\ (text # << >> /\ WellFormedString(text) /\ text[1] # BOM)
             => result = Return(PngMeta(text))
          /\ text \in { << >>, << BOM >> } => result = Return(NoMeta)
          /\ result = Return(ExtractResult(Utf8Decode(Utf8Encode(text))))

\* C21 witness: "A" was injected into a PNG without text chunks, then "é€"
\* into the file that came out; the last file holds two `parameters` chunks,
\* the new one first, and extract has returned "é€".
C21_Witness ==
    /\ pc = "read twice"
    /\ buffer = injectPngMetadata(MkPng(<< >>), << 65 >>).blob
    /\ text = << 233, 8364 >>
    /\ Entries(blob.blob, { StrParameters })
          = << << StrParameters, << 233, 8364 >> >>, << StrParameters, << 65 >> >> >>
    /\ result = Return(PngMeta(<< 233, 8364 >>))

(***************************************************************************)
(* C22: inject requires a cached value                                     *)
(***************************************************************************)
\* C22: handleInject called while the cache is empty ends at once with the
\* error status "extract first", starts no read of the file, leaves
\* processedImage null and the cache empty; the cache becomes non-empty only
\* when an extract settles with the status "metadata saved"; and in every
\* state a processedImage is there only with a non-empty cache and the name
\* of the file it was extracted from.
C22_InjectNeedsCache ==
    /\ [][\A f \in FileNames :
            (cachedMetadata = NoMeta /\ handleInject(f))
            => /\ status' = StExtractFirst
               /\ status'.type = "error"
               /\ pending' = pending
               /\ processedImage' = NoImage
               /\ cachedMetadata' = NoMeta]_vars
    /\ [][(cachedMetadata = NoMeta /\ cachedMetadata' # NoMeta)
          => \E p \in pending :
                /\ p.op = "extract"
                /\ pending' = pending \ { p }
                /\ status' = StSaved(p.file)
                /\ sourceFileName' = p.file]_vars
    /\ [](processedImage # NoImage
          => cachedMetadata # NoMeta /\ sourceFileName # "")

\* C22 witness: inject was asked for before any extract had succeeded, while
\* an extract was still waiting for its file: the status is "extract first",
\* there is no processedImage, the cache is empty and no inject is waiting.
C22_Witness ==
    /\ status = StExtractFirst
    /\ cachedMetadata = NoMeta
    /\ sourceFileName = ""
    /\ processedImage = NoImage
    /\ \E p \in pending : p.op = "extract"
    /\ \A p \in pending : p.op # "inject"

=============================================================================
